---- MODULE Spec2Model ----
(***************************************************************************)
(* State-machine model of the GitHub Copilot CLI session adapter           *)
(* (amplifier/ccsdk_toolkit/core): SessionOptions validation, the          *)
(* CopilotSession life cycle (construct, __aenter__, query, __aexit__),    *)
(* the availability check and the retry loop of CopilotSession.query.      *)
(*                                                                         *)
(* query is a coroutine: it is modelled with one action per suspension     *)
(* point (create_subprocess_exec, process.communicate, asyncio.sleep), and *)
(* qpc is its position.  Variables that the code does not have (counters   *)
(* of launches, sleeps, prints, callback calls, ...) are history variables *)
(* that only record what the code did.                                     *)
(***************************************************************************)
EXTENDS Integers, Sequences, FiniteSets, TLC

\* ---------------------------------------------------------------- bounds
\* largest retry_attempts value a caller passes to SessionOptions
MaxAttempts == 3
\* largest retry_delay (whole seconds) a caller passes to SessionOptions
MaxDelay == 1
\* longest stdout / stderr byte string a child process writes
MaxLen == 2

\* ------------------------------------------------------ program constants
\* retry_attempts: Field(gt=0, le=10)
RetryAttemptsMax == 10
\* retry_delay: Field(gt=0, le=10.0)
RetryDelayMax == 10
\* retry_attempts: Field(default=3)
DefaultAttempts == 3
\* retry_delay: Field(default=1.0)
DefaultDelay == 1

\* ----------------------------------------------------------------- values
\* Python None for an optional value; Some(v) wraps a present value
None == <<>>
Some(v) == <<v>>

\* what a child process can write on a pipe: UTF-8 text of blanks and
\* letters, up to MaxLen characters
Chars == {" ", "a"}
RawOutputs == UNION {[1..n -> Chars] : n \in 0..MaxLen}

\* the prompt a caller passes to query
Prompts == {"hello"}

\* outcomes of subprocess.run(["gh", "copilot", "--version"], timeout=5)
ProbeOutcomes == {"exit0", "nonzero", "TimeoutExpired", "SubprocessError"}

\* class AIProvider
AIProvider == {"claude", "copilot"}

\* values that a provider field can hold: the members of AIProvider and a
\* value that is none of them
ProviderValues == AIProvider \cup {"other"}

\* ------------------------------------------------------------ SessionOptions
\* Field(ge=0) in place of Field(gt=0)
ValidOptionsGe(ra, rd) ==
    /\ ra >= 0 /\ ra <= RetryAttemptsMax
    /\ rd >= 0 /\ rd <= RetryDelayMax

\* pydantic validation of SessionOptions(retry_attempts=ra, retry_delay=rd)
ValidOptions(ra, rd) ==
    /\ ra > 0 /\ ra <= RetryAttemptsMax
    /\ rd > 0 /\ rd <= RetryDelayMax

\* pydantic validation of SessionOptions(provider=pv)
ValidProvider(pv) == pv \in AIProvider

SessionOptions(ra, rd, so, cb, pv) ==
    [retry_attempts |-> ra, retry_delay |-> rd, stream_output |-> so,
     progress_callback |-> cb, provider |-> pv]

\* SessionOptions(): every field at its default
DefaultOptions ==
    SessionOptions(DefaultAttempts, DefaultDelay, FALSE, FALSE, "claude")

NoOptions == <<>>

\* ----------------------------------------------------------- SessionResponse
EmptyDict == <<>>

SessionResponse(content, metadata, error) ==
    [content |-> content, metadata |-> metadata, error |-> error]

\* a success property that looks at the error alone
SuccessErrorOnly(r) == r.error = None

\* SessionResponse.success
Success(r) == r.error = None /\ r.content # ""

NoResult == <<>>

\* ------------------------------------------------------------ text helpers
IsSpace(c) == c = " "

\* str.strip(): drop leading and trailing whitespace
RECURSIVE LStrip(_)
LStrip(s) ==
    IF s = <<>> THEN <<>>
    ELSE IF IsSpace(Head(s)) THEN LStrip(Tail(s)) ELSE s

RECURSIVE RStrip(_)
RStrip(s) ==
    IF s = <<>> THEN <<>>
    ELSE IF IsSpace(s[Len(s)]) THEN RStrip(SubSeq(s, 1, Len(s) - 1)) ELSE s

Strip(s) == RStrip(LStrip(s))

\* the Python str made of the characters of s
RECURSIVE Str(_)
Str(s) == IF s = <<>> THEN "" ELSE Head(s) \o Str(Tail(s))

\* stdout.decode("utf-8").strip()
DecodeStrip(raw) == Str(Strip(raw))

\* ------------------------------------------------------------------ state
VARIABLES
    phase,        \* where the caller's script is: "start", "invalid"
                  \* (ValidationError), "configured", "unsupported"
                  \* (the factory raised ValueError), "unavailable"
                  \* (construction raised), "claude_session" (a
                  \* ClaudeSession was built), "constructed" (a
                  \* CopilotSession was built), "open_failed"
                  \* (__aenter__ raised), "open", "closed"
    options,      \* self.options (NoOptions before SessionOptions is built)
    command,      \* self._copilot_command (NoCommand models None)
    qpc,          \* position of the query coroutine: "idle", "launch",
                  \* "communicate", "sleep" (the three awaits), "returned",
                  \* "raised"
    prompt,       \* query argument prompt
    stream,       \* query argument stream: None, Some(TRUE) or Some(FALSE)
    attempt,      \* loop variable of "for attempt in range(retry_attempts)"
    retry_delay,  \* local retry_delay of query
    last_error,   \* local last_error of query: None or Some(str)
    child,        \* the child process of the current attempt
    result,       \* what query returned: NoResult or a SessionResponse
    \* history variables
    checks,       \* number of runs of _check_prerequisites
    lastCheck,    \* what the latest _check_prerequisites run saw
    exits,        \* number of runs of __aexit__
    overridden,   \* an earlier query call of this adapter ran with a
                  \* stream flag that differed from options.stream_output
    cmd,          \* argv of the latest child process of this query call
    launches,     \* child processes launched by this query call
    inFlight,     \* child processes of this query call not yet completed
    sleeps,       \* durations of the backoff sleeps of this query call
    printed,      \* number of streaming writes to stdout in this query call
    cbCount,      \* number of progress_callback invocations in this call
    cbArg,        \* argument of the latest progress_callback invocation
    effStream,    \* should_stream values computed in this query call
    exitOnly,     \* every attempt so far ended in non-zero exit / empty output
    outcome,      \* the latest completed child process: its exit code and
                  \* the trimmed text of the pipe the code read for it
    cancelledAt,  \* None, or where the task was when it was cancelled
    success,      \* None, or Some(what the caller read from result.success)
    requested     \* None, or the retry settings of the latest
                  \* SessionOptions(...) call, accepted or not

lifeVars == <<phase, options, command, checks, lastCheck, exits>>
localVars == <<prompt, stream, attempt, retry_delay, last_error>>
histVars == <<cmd, launches, inFlight, sleeps, printed, cbCount, cbArg,
              effStream, exitOnly, outcome>>
vars == <<phase, options, command, qpc, prompt, stream, attempt, retry_delay,
          last_error, child, result, checks, lastCheck, exits,
          overridden, cmd, launches, inFlight, sleeps, printed, cbCount, cbArg,
          effStream, exitOnly, outcome, cancelledAt, success, requested>>

NoCommand == <<>>

\* nothing has been built and nothing has run
Fresh ==
    /\ phase = "start"
    /\ options = NoOptions
    /\ command = NoCommand
    /\ qpc = "idle"
    /\ prompt = ""
    /\ stream = None
    /\ attempt = 0
    /\ retry_delay = 0
    /\ last_error = None
    /\ child = "none"
    /\ checks = 0
    /\ lastCheck = None
    /\ exits = 0
    /\ overridden = FALSE
    /\ cmd = <<>>
    /\ launches = 0
    /\ inFlight = 0
    /\ sleeps = <<>>
    /\ printed = 0
    /\ cbCount = 0
    /\ cbArg = None
    /\ effStream = {}
    /\ exitOnly = TRUE
    /\ outcome = None
    /\ cancelledAt = None
    /\ success = None
    /\ requested = None

Init == Fresh /\ result = NoResult

\* ------------------------------------------------- SessionOptions(...)
\* The caller builds the options; pydantic validates the retry settings and
\* raises ValidationError when they are out of range.
NewSessionOptions(ra, rd, so, cb, pv) ==
    /\ phase = "start"
    /\ IF ValidOptions(ra, rd) /\ ValidProvider(pv)
       THEN /\ options' = SessionOptions(ra, rd, so, cb, pv)
            /\ phase' = "configured"
       ELSE /\ options' = options
            /\ phase' = "invalid"
    /\ requested' = Some([retry_attempts |-> ra, retry_delay |-> rd])
    /\ UNCHANGED <<command, checks, lastCheck, exits, qpc, result,
                   child, overridden, cancelledAt, success>>
    /\ UNCHANGED localVars
    /\ UNCHANGED histVars

\* "options.provider = pv" after construction: SessionOptions does not
\* validate assignments, so the field can come to hold a value that is no
\* member of AIProvider
AssignProvider(pv) ==
    /\ phase = "configured"
    /\ pv # options.provider
    /\ options' = [options EXCEPT !.provider = pv]
    /\ UNCHANGED <<phase, command, checks, lastCheck, exits, qpc, result,
                   child, overridden, cancelledAt,
                   success, requested>>
    /\ UNCHANGED localVars
    /\ UNCHANGED histVars

\* ------------------------------------------------- _check_prerequisites
\* a check that probes "gh copilot" whenever "gh" is on the path
ProbeRunsWheneverGh(copilot, gh) == gh

\* the version probe runs only when "copilot" is not on the path and "gh" is
ProbeRuns(copilot, gh) == ~copilot /\ gh

\* a check that does not look at the exit code of the version probe
CheckPrerequisitesAnyExit(copilot, gh, probe) ==
    IF copilot
    THEN [raised |-> FALSE, command |-> <<"copilot">>]
    ELSE IF gh /\ probe \in {"exit0", "nonzero"}
         THEN [raised |-> FALSE, command |-> <<"gh", "copilot">>]
         ELSE [raised |-> TRUE, command |-> NoCommand]

\* a check that returns instead of raising when it finds no tool
CheckPrerequisitesNoRaise(copilot, gh, probe) ==
    IF copilot
    THEN [raised |-> FALSE, command |-> <<"copilot">>]
    ELSE IF gh /\ probe = "exit0"
         THEN [raised |-> FALSE, command |-> <<"gh", "copilot">>]
         ELSE [raised |-> FALSE, command |-> NoCommand]

\* _check_prerequisites, given what shutil.which and subprocess.run answer:
\* the command it stores, or raised = TRUE for SDKNotAvailableError
CheckPrerequisites(copilot, gh, probe) ==
    IF copilot
    THEN [raised |-> FALSE, command |-> <<"copilot">>]
    ELSE IF gh /\ probe = "exit0"
         THEN [raised |-> FALSE, command |-> <<"gh", "copilot">>]
         ELSE [raised |-> TRUE, command |-> NoCommand]

\* what the environment can answer to one run of _check_prerequisites
CheckInputs ==
    {e \in [copilot : BOOLEAN, gh : BOOLEAN,
            probe : ProbeOutcomes \cup {"not run"}] :
        (e.probe = "not run") <=> ~ProbeRuns(e.copilot, e.gh)}

\* a constructor that keeps what _check_prerequisites resolved
InitCommandKeep(resolved) == resolved

\* the last statement of __init__, executed after _check_prerequisites
\* returned: self._copilot_command = None
InitCommand(resolved) == NoCommand

\* CopilotSession(options)
Construct(e) ==
    /\ phase = "configured"
    /\ LET r == CheckPrerequisites(e.copilot, e.gh, e.probe) IN
        /\ checks' = checks + 1
        /\ lastCheck' = Some(e)
        /\ IF r.raised
           THEN /\ phase' = "unavailable"
                /\ command' = NoCommand
           ELSE /\ phase' = "constructed"
                /\ command' = InitCommand(r.command)
    /\ UNCHANGED <<options, exits, qpc, result, child, overridden, cancelledAt,
                   success, requested>>
    /\ UNCHANGED localVars
    /\ UNCHANGED histVars

\* ClaudeSession(options): the adapter of the primary provider checks that
\* its CLI is on the path and fails with SDKNotAvailableError otherwise
ClaudeConstruct(claudeOnPath) ==
    /\ phase' = (IF claudeOnPath THEN "claude_session" ELSE "unavailable")
    /\ UNCHANGED <<command, checks, lastCheck, exits, qpc, result,
                   child, overridden, cancelledAt,
                   success, requested>>
    /\ UNCHANGED localVars
    /\ UNCHANGED histVars

\* a factory that falls back to the primary provider instead of raising
SelectSessionFallback(provider) ==
    IF provider = "copilot" THEN "CopilotSession" ELSE "ClaudeSession"

\* the if / elif / else of create_session: the class it constructs, or the
\* ValueError it raises
SelectSession(provider) ==
    IF provider = "claude" THEN "ClaudeSession"
    ELSE IF provider = "copilot" THEN "CopilotSession"
    ELSE "ValueError"

\* create_session(given): given is None (options omitted) or Some(options).
\* CopilotSession never reads options.provider, so an adapter that a caller
\* constructs directly behaves as the one the factory constructs.
CreateSession(given, e, claudeOnPath) ==
    /\ IF given = None THEN phase = "start" ELSE phase = "configured"
    /\ LET opts == IF given = None THEN DefaultOptions ELSE given[1]
           chosen == SelectSession(opts.provider)
       IN  IF chosen = "CopilotSession"
           THEN Construct(e)
           ELSE IF chosen = "ClaudeSession"
           THEN options' = opts /\ ClaudeConstruct(claudeOnPath)
           ELSE /\ options' = opts
                /\ phase' = "unsupported"
                /\ UNCHANGED <<command, checks, lastCheck, exits, qpc, result,
                               child, overridden, cancelledAt,
                               success, requested>>
                /\ UNCHANGED localVars
                /\ UNCHANGED histVars

\* "async with session": __aenter__
AEnter(e) ==
    /\ phase = "constructed"
    /\ qpc \in {"idle", "returned"}
    /\ IF command = NoCommand
       THEN LET r == CheckPrerequisites(e.copilot, e.gh, e.probe) IN
            /\ checks' = checks + 1
            /\ lastCheck' = Some(e)
            /\ IF r.raised
               THEN /\ phase' = "open_failed"
                    /\ command' = command
               ELSE /\ phase' = "open"
                    /\ command' = r.command
       ELSE /\ phase' = "open"
            /\ UNCHANGED <<command, checks, lastCheck>>
    /\ UNCHANGED <<options, exits, qpc, result, child, overridden, cancelledAt,
                   success, requested>>
    /\ UNCHANGED localVars
    /\ UNCHANGED histVars

\* leaving the "async with" block normally: __aexit__ (nothing to clean up)
AExit ==
    /\ phase = "open"
    /\ qpc \in {"idle", "returned"}
    /\ phase' = "closed"
    /\ exits' = exits + 1
    /\ UNCHANGED <<options, command, checks, lastCheck, qpc, result,
                   child, overridden, cancelledAt,
                   success, requested>>
    /\ UNCHANGED localVars
    /\ UNCHANGED histVars

\* ------------------------------------------------------------------ query
\* "stream or self.options.stream_output": an override of False is lost
ShouldStreamOr(s, stream_output) == (s # None /\ s[1]) \/ stream_output

\* "should_stream = stream if stream is not None else self.options.stream_output"
ShouldStream(s, stream_output) == IF s # None THEN s[1] ELSE stream_output

\* exception classes that the handlers of the retry loop catch:
\* "except ValueError" and "except Exception".  asyncio.CancelledError derives
\* from BaseException and is not among them.
ExceptionClasses == {"ValueError", "SessionError", "OSError", "Exception"}
\* a loop with only the "except ValueError" handler
CaughtValueErrorOnly(kind) == kind = "ValueError"

\* a loop that retries only the conditions it raises itself for the CLI
CaughtCliConditions(kind) == kind \in {"ValueError", "SessionError"}

\* a loop with a bare "except:" handler, which also catches CancelledError
CaughtEverything(kind) == TRUE

Caught(kind) == kind \in ExceptionClasses

\* str(e) of the exceptions the loop body raises
EmptyResponseText == "Received empty response from Copilot CLI"
CommandFailedText(error_msg) == "Copilot CLI error: " \o error_msg
LaunchErrorText == "[Errno 2] No such file or directory"
CallbackErrorText == "progress callback failed"

\* f"Failed after {self.options.retry_attempts} attempts: {last_error}"
ExhaustedText(n, detail) ==
    "Failed after " \o ToString(n) \o " attempts: " \o detail

NotInitializedText == "Session not initialized properly."

\* a metadata dict that carries the loop index instead of the attempt number
MetadataLoopIndex(att) == [attempt |-> att, provider |-> "copilot"]

\* the metadata dict of a successful attempt
Metadata(att) == [attempt |-> att + 1, provider |-> "copilot"]

\* what a child process can do: exit code, stdout bytes, stderr bytes (only
\* the stream that the code reads for that exit code is enumerated)
ProcessOutcomes ==
    [returncode : {0}, stdout : RawOutputs, stderr : {<<>>}]
    \cup [returncode : {1}, stdout : {<<>>}, stderr : RawOutputs]

Effects(prints, calls, should, exc, ret) ==
    [prints |-> prints, calls |-> calls, should |-> should,
     exc |-> exc, ret |-> ret]

\* The body of the try block after process.communicate() returned o, for
\* attempt index att: whether it printed, the text it passed to the progress
\* callback, the should_stream it computed, and how it ended: exc is
\* Some(<<class, str(e)>>), or ret is Some(the envelope returned).
\* cbRaises: the progress callback raises when it is called.
AttemptBody(o, cbRaises, s, opts, att) ==
    IF o.returncode = 0
    THEN      LET response_text == DecodeStrip(o.stdout)
                  should_stream == ShouldStream(s, opts.stream_output)
                  prints == should_stream /\ response_text # ""
                  calls == IF opts.progress_callback /\ response_text # ""
                           THEN Some(response_text) ELSE None
              IN  IF calls # None /\ cbRaises
                  THEN Effects(prints, calls, Some(should_stream),
                               Some(<<"Exception", CallbackErrorText>>), None)
                  ELSE IF response_text # ""
                  THEN Effects(prints, calls, Some(should_stream), None,
                               Some(SessionResponse(response_text,
                                                    Metadata(att), None)))
                  ELSE Effects(prints, calls, Some(should_stream),
                               Some(<<"ValueError", EmptyResponseText>>), None)
    ELSE Effects(FALSE, None, None,
                 Some(<<"SessionError",
                        CommandFailedText(DecodeStrip(o.stderr))>>), None)

\* a loop that sleeps after the last attempt as well
SleepFollowsAlways(att, n) == att < n

\* "if attempt < self.options.retry_attempts - 1": a sleep follows
SleepFollows(att, n) == att < n - 1

\* a retry loop that sleeps a constant delay
NextDelayConstant(d) == d

\* "retry_delay *= 2"
NextDelay(d) == d * 2

\* a retry loop that keeps the first failure instead of the latest
RecordErrorKeepFirst(old, detail) == IF old = None THEN Some(detail) ELSE old

\* "last_error = str(e)" in both handlers: the new value of last_error
RecordError(old, detail) == Some(detail)

\* query returns the envelope r
Return(r) ==
    /\ qpc' = "returned"
    /\ result' = r
    /\ UNCHANGED <<last_error, sleeps, phase, exits>>

\* An exception handler of the loop ran (last_error = str(e)); then either
\* the backoff sleep starts or, after the last attempt, the loop ends and
\* the failure envelope is returned.
FailAttempt(detail) ==
    /\ last_error' = RecordError(last_error, detail)
    /\ IF SleepFollows(attempt, options.retry_attempts)
       THEN /\ qpc' = "sleep"
            /\ sleeps' = Append(sleeps, retry_delay)
            /\ result' = result
       ELSE /\ qpc' = "returned"
            /\ sleeps' = sleeps
            /\ result' = SessionResponse("", EmptyDict,
                             Some(ExhaustedText(options.retry_attempts,
                                                last_error'[1])))
    /\ UNCHANGED <<phase, exits>>

\* An exception leaves query; when the caller is inside "async with", the
\* block is unwound and __aexit__ runs.
Propagate ==
    /\ qpc' = "raised"
    /\ IF phase = "open"
       THEN phase' = "closed" /\ exits' = exits + 1
       ELSE UNCHANGED <<phase, exits>>
    /\ UNCHANGED <<last_error, sleeps, result>>

\* an exception of class kind raised inside the try block
HandleException(kind, msg) ==
    IF Caught(kind) THEN FailAttempt(msg) ELSE Propagate

\* a query that goes on from the delay the previous call ended with
StartDelayLeaky(opts, old) == IF old = 0 THEN opts.retry_delay ELSE old

\* "retry_delay = self.options.retry_delay": the delay a call starts from;
\* old is what the local variable of the previous call held
StartDelay(opts, old) == opts.retry_delay

\* await session.query(p, stream=s): up to the first suspension point
Query(p, s) ==
    /\ phase \in {"constructed", "open"}
    /\ qpc \in {"idle", "returned"}
    /\ overridden' = (\/ overridden
                       \/ effStream \notin {{}, {options.stream_output}})
    /\ prompt' = p
    /\ stream' = s
    /\ attempt' = 0
    /\ last_error' = None
    /\ IF command = NoCommand
       THEN /\ result' = SessionResponse("", EmptyDict, Some(NotInitializedText))
            /\ qpc' = "returned"
            /\ retry_delay' = 0
       ELSE /\ result' = NoResult
            /\ qpc' = "launch"
            /\ retry_delay' = StartDelay(options, retry_delay)
    /\ cmd' = <<>>
    /\ launches' = 0
    /\ inFlight' = 0
    /\ sleeps' = <<>>
    /\ printed' = 0
    /\ cbCount' = 0
    /\ cbArg' = None
    /\ effStream' = {}
    /\ exitOnly' = TRUE
    /\ outcome' = None
    /\ child' = "none"
    /\ UNCHANGED <<lifeVars, cancelledAt,
                   success, requested>>

\* a loop that spawns the next child without awaiting the previous one
MayLaunchConcurrent(pc) == pc \in {"launch", "communicate"}

\* the spawn is a statement of the loop body: it runs when the coroutine is
\* at the top of an iteration, after the awaits of the previous one returned
MayLaunch(pc) == pc = "launch"

\* await asyncio.create_subprocess_exec(*cmd, ...): the child is spawned
\* (ok) or the spawn raises OSError
Launch(ok) ==
    /\ MayLaunch(qpc)
    /\ IF ok
       THEN /\ cmd' = command \o <<"explain", prompt>>
            /\ launches' = launches + 1
            /\ inFlight' = inFlight + 1
            /\ child' = "running"
            /\ qpc' = "communicate"
            /\ UNCHANGED <<exitOnly, last_error, sleeps, result, phase, exits>>
       ELSE /\ exitOnly' = FALSE
            /\ HandleException("OSError", LaunchErrorText)
            /\ UNCHANGED <<cmd, launches, inFlight, child>>
    /\ UNCHANGED <<options, command, checks, lastCheck, overridden,
                   prompt, stream, attempt, retry_delay, printed, cbCount,
                   cbArg, effStream, outcome, cancelledAt,
                   success, requested>>

\* await process.communicate() returns, and the rest of the loop body runs
\* up to the next suspension point or the return
Complete(o, cbRaises) ==
    /\ qpc = "communicate"
    /\ child' = "exited"
    /\ inFlight' = inFlight - 1
    /\ outcome' = Some([returncode |-> o.returncode,
                         text |-> IF o.returncode = 0
                                  THEN DecodeStrip(o.stdout)
                                  ELSE DecodeStrip(o.stderr)])
    /\ LET b == AttemptBody(o, cbRaises, stream, options, attempt) IN
        /\ printed' = printed + (IF b.prints THEN 1 ELSE 0)
        /\ cbCount' = cbCount + (IF b.calls # None THEN 1 ELSE 0)
        /\ cbArg' = IF b.calls # None THEN b.calls ELSE cbArg
        /\ effStream' = effStream \cup
                        (IF b.should # None THEN {b.should[1]} ELSE {})
        /\ exitOnly' = (/\ exitOnly
                        /\ b.exc # None
                        /\ b.exc[1][1] \in {"ValueError", "SessionError"})
        /\ IF b.exc = None
           THEN Return(b.ret[1])
           ELSE HandleException(b.exc[1][1], b.exc[1][2])
    /\ UNCHANGED <<options, command, checks, lastCheck, overridden,
                   prompt, stream, attempt, retry_delay, cmd, launches,
                   cancelledAt,
                   success, requested>>

\* await asyncio.sleep(retry_delay) returns; retry_delay *= 2; next iteration
Wake ==
    /\ qpc = "sleep"
    /\ retry_delay' = NextDelay(retry_delay)
    /\ attempt' = attempt + 1
    /\ qpc' = "launch"
    /\ UNCHANGED <<lifeVars, histVars, prompt, stream, last_error, child,
                   result, overridden, cancelledAt,
                   success, requested>>

\* The task running query is cancelled while query is suspended:
\* CancelledError is raised at the await.  The awaits on the subprocess are
\* inside the try block; the await on asyncio.sleep is after it.  The child
\* that was awaited is left behind; whether it is still running or was
\* killed when its transport was collected is up to the runtime.
Cancel ==
    /\ qpc \in {"launch", "communicate", "sleep"}
    /\ cancelledAt = None
    /\ cancelledAt' = Some([pc |-> qpc, launches |-> launches,
                            sleeps |-> Len(sleeps)])
    /\ exitOnly' = FALSE
    /\ IF qpc = "communicate"
       THEN \/ child' = "abandoned" /\ inFlight' = inFlight
            \/ child' = "killed" /\ inFlight' = inFlight - 1
       ELSE UNCHANGED <<child, inFlight>>
    /\ IF qpc = "sleep"
       THEN Propagate
       ELSE HandleException("CancelledError", "")
    /\ UNCHANGED <<options, command, checks, lastCheck, overridden,
                   prompt, stream, attempt, retry_delay, cmd, launches,
                   printed, cbCount, cbArg, effStream, outcome,
                   success, requested>>

StreamArgs == {None, Some(TRUE), Some(FALSE)}

\* what the progress callback can do when the attempt calls it: return, or
\* raise (an attempt that does not call it has nothing to choose)
CallbackBehaviours(o, s, opts, att) ==
    IF AttemptBody(o, FALSE, s, opts, att).calls # None
    THEN BOOLEAN ELSE {FALSE}

Next ==
    \/ \E ra \in 0..MaxAttempts, rd \in 0..MaxDelay,
          so \in BOOLEAN, cb \in BOOLEAN, pv \in ProviderValues :
             NewSessionOptions(ra, rd, so, cb, pv)
    \/ \E pv \in ProviderValues : AssignProvider(pv)
    \/ \E e \in CheckInputs, claudeOnPath \in BOOLEAN :
          CreateSession(IF phase = "start" THEN None ELSE Some(options),
                        e, claudeOnPath)
    \/ \E e \in CheckInputs : AEnter(e)
    \/ AExit
    \/ \E p \in Prompts, s \in StreamArgs : Query(p, s)
    \/ \E ok \in BOOLEAN : Launch(ok)
    \/ /\ qpc = "communicate"
       /\ \E o \in ProcessOutcomes :
          \E cbRaises \in CallbackBehaviours(o, stream, options, attempt) :
             Complete(o, cbRaises)
    \/ Wake
    \/ Cancel

Spec == Init /\ [][Next]_vars

\* ------------------------------------------------- SessionResponse.success
\* The envelope is a public model: a caller can hold one with any content
\* and any error, and reads its success property.
Texts == {Str(raw) : raw \in RawOutputs}

Envelopes ==
    {SessionResponse(c, md, e) :
        c \in Texts,
        md \in {EmptyDict} \cup {Metadata(att) : att \in 0..(MaxAttempts - 1)},
        e \in {None} \cup {Some(t) : t \in Texts}}

\* "response.success"
ReadSuccess ==
    /\ result # NoResult
    /\ success' = Some(Success(result))
    /\ UNCHANGED <<lifeVars, localVars, histVars, qpc, child, result,
                   overridden, cancelledAt, requested>>

ResponseInit == Fresh /\ result \in Envelopes

ResponseNext == ReadSuccess

ResponseSpec == ResponseInit /\ [][ResponseNext]_vars

\* ------------------------------------------------- the whole range of options
\* Retry settings from below the accepted range to above it. The adapter is
\* followed up to the point where query has read the settings.
WideAttempts == (0 - 1)..(RetryAttemptsMax + 1)

WideDelays == (0 - 1)..(RetryDelayMax + 1)

OptionsNext ==
    \/ \E ra \in WideAttempts, rd \in WideDelays,
          so \in BOOLEAN, cb \in BOOLEAN, pv \in AIProvider :
             NewSessionOptions(ra, rd, so, cb, pv)
    \/ \E e \in CheckInputs, claudeOnPath \in BOOLEAN :
          CreateSession(IF phase = "start" THEN None ELSE Some(options),
                        e, claudeOnPath)
    \/ \E e \in CheckInputs : AEnter(e)
    \/ \E p \in Prompts, s \in StreamArgs : Query(p, s)

OptionsSpec == Init /\ [][OptionsNext]_vars

\* ================================================================== claims
InFlight == {"launch", "communicate", "sleep"}

\* this query call ran the retry loop (the adapter was opened)
RanLoop == launches > 0

RECURSIVE Pow2(_)
Pow2(n) == IF n = 0 THEN 1 ELSE 2 * Pow2(n - 1)

\* the failure detail that the latest completed child process stands for
OutcomeDetail ==
    IF outcome[1].returncode = 0
    THEN EmptyResponseText
    ELSE CommandFailedText(outcome[1].text)

\* C1: when every attempt of a query call ended in a non-zero exit or in a
\* zero exit with empty output, the call launched exactly retry_attempts
\* child processes and returned empty content with the error
\* "Failed after N attempts: " followed by the detail of the last attempt.
C1_ExhaustedAfterN ==
    (qpc = "returned" /\ RanLoop /\ exitOnly) =>
        /\ launches = options.retry_attempts
        /\ result.content = ""
        /\ result.error =
               Some(ExhaustedText(options.retry_attempts, OutcomeDetail))

\* three attempts, the first ones failing otherwise than the last one
C1_Witness ==
    /\ qpc = "returned" /\ RanLoop /\ exitOnly
    /\ options.retry_attempts = 3
    /\ launches = 3
    /\ outcome = Some([returncode |-> 1, text |-> "a"])
    /\ result.error = Some("Failed after 3 attempts: Copilot CLI error: a")

\* C2 (as claimed): once an attempt exited 0 with non-empty trimmed output,
\* query has returned the successful envelope of that attempt (content =
\* that output, metadata attempt = that attempt, provider), and nothing was
\* launched and no sleep happened after it.
C2_SuccessAtK ==
    (/\ outcome # None
     /\ outcome[1].returncode = 0
     /\ outcome[1].text # ""
     /\ cancelledAt = None) =>
        /\ qpc = "returned"
        /\ result = SessionResponse(outcome[1].text,
                                    [attempt |-> attempt + 1,
                                     provider |-> "copilot"], None)
        /\ Len(sleeps) = attempt

\* C3 (as claimed): in one query call the streaming write happens at most
\* once and the progress callback is invoked at most once.
C3_SideEffectsAtMostOnce == printed <= 1 /\ cbCount <= 1

\* C4 (as claimed): with a progress callback configured, a call that returned
\* a successful envelope invoked the callback exactly once, with the content;
\* a call whose attempts all ended in empty output or non-zero exit invoked
\* it zero times.
C4_CallbackExactlyOnce ==
    (qpc = "returned" /\ RanLoop /\ options.progress_callback) =>
        /\ Success(result) => (cbCount = 1 /\ cbArg = Some(result.content))
        /\ exitOnly => cbCount = 0

\* C5: the i-th backoff sleep of a query call (the one before attempt i+1)
\* lasts retry_delay * 2^(i-1), and attempt i+1 starts after exactly i sleeps.
C5_BackoffDoubles ==
    /\ \A i \in 1..Len(sleeps) :
          sleeps[i] = options.retry_delay * Pow2(i - 1)
    /\ qpc \in {"launch", "communicate"} => Len(sleeps) = attempt
    /\ qpc = "sleep" => Len(sleeps) = attempt + 1

C5_Witness ==
    /\ qpc = "communicate"
    /\ attempt = 2
    /\ sleeps = <<1, 2>>

\* steps left before the retry loop must end
Fuel ==
    3 * (options.retry_attempts - attempt)
    - (CASE qpc = "launch" -> 0 [] qpc = "communicate" -> 1 [] OTHER -> 2)

\* C6: whatever the child processes do, query does not raise: unless the task
\* is cancelled it never ends in an exception, the loop is bounded (every
\* step uses up fuel), and a call that returns without success reports the
\* failure in a non-empty error field.
C6_NeverRaises ==
    /\ [](cancelledAt = None => qpc # "raised")
    /\ [](qpc \in InFlight => attempt < options.retry_attempts /\ Fuel > 0)
    /\ [](qpc = "returned" =>
            /\ result # NoResult
            /\ ~Success(result) =>
                  (result.error # None /\ result.error # Some("")))
    /\ [][(qpc \in InFlight /\ qpc' \in InFlight) => Fuel' < Fuel]_vars

C6_Witness ==
    /\ qpc = "returned" /\ RanLoop
    /\ launches = 3
    /\ outcome # None /\ outcome[1].returncode = 1
    /\ result.error # None

\* C7 (as claimed): the availability check runs exactly once, during
\* construction, and from the end of construction on the adapter holds the
\* command it resolved.
C7_ResolvedOnce ==
    phase \in {"constructed", "open", "closed"} =>
        checks = 1 /\ command # NoCommand

\* C8: a run of the availability check that finds no standalone binary, finds
\* the host CLI and gets exit code 0 from the probe does not fail and
\* resolves to the extension form, so that the queries using it spawn
\* gh copilot explain <prompt>; when construction's check finds no
\* standalone binary and the host CLI is absent or its probe fails or times
\* out, construction fails and there is no adapter to open or query.
C8_AvailabilityCheck ==
    lastCheck # None =>
        LET e == lastCheck[1] IN
        /\ (~e.copilot /\ e.gh /\ e.probe = "exit0") =>
              /\ phase \notin {"unavailable", "open_failed"}
              /\ phase \in {"open", "closed"} => command = <<"gh", "copilot">>
              /\ (phase \in {"open", "closed"} /\ RanLoop) =>
                    cmd = <<"gh", "copilot", "explain", prompt>>
        /\ (~e.copilot /\ (~e.gh \/ e.probe # "exit0") /\ checks = 1) =>
              /\ phase = "unavailable"
              /\ command = NoCommand
              /\ qpc = "idle" /\ result = NoResult

C8_Witness ==
    /\ phase = "open"
    /\ lastCheck = Some([copilot |-> FALSE, gh |-> TRUE, probe |-> "exit0"])
    /\ qpc = "communicate"
    /\ cmd = <<"gh", "copilot", "explain", "hello">>

\* C9: after the task was cancelled during an await of query, the awaited
\* child is killed or left behind, the cancellation was not absorbed as a
\* failed attempt (nothing is launched, no sleep starts, nothing is
\* returned: the exception left query), and __aexit__ has run.
C9_Cancellation ==
    cancelledAt # None =>
        /\ qpc = "raised"
        /\ result = NoResult
        /\ launches = cancelledAt[1].launches
        /\ Len(sleeps) = cancelledAt[1].sleeps
        /\ cancelledAt[1].pc = "communicate" => child \in {"abandoned", "killed"}
        /\ child # "running"
        /\ phase = "closed" /\ exits = 1

C9_Witness ==
    /\ cancelledAt # None
    /\ cancelledAt[1].pc = "communicate"
    /\ cancelledAt[1].launches = 2
    /\ exits = 1

\* the stream flag that the arguments of the current call ask for
ExpectedStream == IF stream # None THEN stream[1] ELSE options.stream_output

\* C10: the stream flag a query call uses is its stream argument when one is
\* given and options.stream_output otherwise (and the response is printed
\* accordingly); no step changes options.stream_output once the options are
\* built.
C10_StreamPrecedence ==
    /\ [](options # NoOptions =>
            /\ effStream \subseteq {ExpectedStream}
            /\ printed > 0 => ExpectedStream
            /\ (/\ qpc = "returned" /\ RanLoop
                /\ Success(result) /\ ExpectedStream) => printed >= 1)
    /\ [][options # NoOptions =>
             options'.stream_output = options.stream_output]_vars

\* a call without override that printed by default, after a call on the same
\* adapter whose override had switched streaming off
C10_Witness ==
    /\ overridden
    /\ stream = None
    /\ options.stream_output
    /\ qpc = "returned" /\ Success(result)
    /\ printed = 1

\* the phases in which create_session has not been called yet
BeforeFactory == {"start", "invalid", "configured"}

\* the phases of a CopilotSession that was constructed
CopilotPhases == {"constructed", "open_failed", "open", "closed"}

\* C11: create_session selects by options.provider alone: a ClaudeSession for
\* "claude", a CopilotSession (whose availability check ran) for "copilot",
\* and for a provider outside AIProvider the ValueError with no adapter
\* constructed and no check run; the adapter holds the options that were
\* given, and the default options (provider "claude") when none were given.
C11_FactorySelects ==
    /\ [](phase \notin BeforeFactory =>
            /\ options # NoOptions
            /\ options.provider = "claude" <=>
                   phase \in {"claude_session", "unavailable"} /\ checks = 0
            /\ options.provider = "copilot" <=>
                   phase \in CopilotPhases \cup {"unavailable"} /\ checks >= 1
            /\ options.provider \notin AIProvider <=> phase = "unsupported"
            /\ phase = "unsupported" => checks = 0 /\ command = NoCommand)
    /\ [][(phase \in BeforeFactory /\ phase' \notin BeforeFactory) =>
             options' = (IF phase = "start" THEN DefaultOptions ELSE options)]_vars

\* the factory refused options whose provider is no member of AIProvider
C11_Witness ==
    /\ phase = "unsupported"
    /\ options.provider = "other"
    /\ checks = 0

\* C12: the success property read from an envelope is true when the error
\* is absent and the content is non-empty, and false in the three other
\* combinations of error present / absent and content empty / non-empty.
C12_SuccessTruthTable ==
    success # None =>
        /\ (result.error = None /\ result.content # "") => success = Some(TRUE)
        /\ (result.error = None /\ result.content = "") => success = Some(FALSE)
        /\ (result.error # None /\ result.content # "") => success = Some(FALSE)
        /\ (result.error # None /\ result.content = "") => success = Some(FALSE)

\* success was read from an envelope that carries both content and an error
C12_Witness ==
    /\ success = Some(FALSE)
    /\ result.error # None
    /\ result.content # ""

LoopReturned == qpc = "returned" /\ result.error # Some(NotInitializedText)

\* C14: query sleeps between attempts only: a call that ended on attempt k
\* (attempt index k - 1), by success or by exhaustion with k = N, has slept
\* exactly k - 1 times; while the call runs there is one sleep per attempt
\* already failed, none after the last attempt, and none at all when N = 1.
C14_SleepsBetweenAttempts ==
    /\ LoopReturned =>
           /\ Len(sleeps) = attempt
           /\ attempt <= options.retry_attempts - 1
           /\ Success(result) => Len(sleeps) = result.metadata.attempt - 1
           /\ ~Success(result) => Len(sleeps) = options.retry_attempts - 1
    /\ qpc \in {"launch", "communicate"} => Len(sleeps) = attempt
    /\ qpc = "sleep" =>
           /\ Len(sleeps) = attempt + 1
           /\ attempt < options.retry_attempts - 1
    /\ (options # NoOptions /\ options.retry_attempts = 1) => sleeps = <<>>

\* a call that succeeded on its third attempt, after two sleeps
C14_Witness ==
    /\ LoopReturned
    /\ Success(result)
    /\ result.metadata.attempt = 3
    /\ Len(sleeps) = 2

\* the environment of a check run offers a usable tool
Usable(e) == e.copilot \/ (e.gh /\ e.probe = "exit0")

\* C15: __aenter__ succeeds, on the same adapter, only when the check it runs
\* finds a usable tool; when the tools found at construction are gone it
\* raises, and then the scope is never entered: no query call runs, no child
\* process is launched, __aexit__ does not run and nothing happens after.
C15_OpenChecks ==
    /\ [](phase = "open" =>
            /\ lastCheck # None
            /\ Usable(lastCheck[1])
            /\ command # NoCommand)
    /\ [](phase = "open_failed" =>
            /\ checks = 2
            /\ ~Usable(lastCheck[1])
            /\ command = NoCommand
            /\ exits = 0
            /\ qpc \notin InFlight
            /\ launches = 0
            /\ qpc = "returned" => result.error = Some(NotInitializedText))
    /\ [][phase # "open_failed"]_vars

\* the adapter was constructed, then both tools disappeared and opening it
\* failed
C15_Witness ==
    /\ phase = "open_failed"
    /\ checks = 2
    /\ lastCheck = Some([copilot |-> FALSE, gh |-> FALSE, probe |-> "not run"])

\* C16: a check run that finds "copilot" on the path never runs the version
\* probe and never fails, whether "gh" is present or not, and the command it
\* resolves is the standalone one; the probe is run exactly by the check
\* runs that find no "copilot" but find "gh".
C16_StandalonePreferred ==
    lastCheck # None =>
        LET e == lastCheck[1] IN
        /\ e.copilot =>
               /\ e.probe = "not run"
               /\ phase \in CopilotPhases \ {"open_failed"}
               /\ phase \in {"open", "closed"} => command = <<"copilot">>
               /\ (phase = "open" /\ launches > 0) => cmd[1] = "copilot"
        /\ e.probe # "not run" <=> (~e.copilot /\ e.gh)

\* both tools are installed; the adapter was opened on the standalone binary
\* without a probe, and a query launched it
C16_Witness ==
    /\ phase = "open"
    /\ lastCheck = Some([copilot |-> TRUE, gh |-> TRUE, probe |-> "not run"])
    /\ command = <<"copilot">>
    /\ qpc = "communicate"
    /\ cmd = <<"copilot", "explain", "hello">>

\* C17: the attempts of a query call are sequential: never more than one
\* child of the call is in flight, the coroutine awaits a child exactly
\* while that child runs, and a child is launched only when no earlier child
\* of the call is in flight and every sleep that followed an earlier attempt
\* is over (one finished sleep per earlier attempt).
C17_Sequential ==
    /\ [](/\ inFlight <= 1
          /\ qpc = "communicate" <=> child = "running"
          /\ qpc = "communicate" => inFlight = 1
          /\ qpc \in {"launch", "sleep"} => inFlight = 0)
    /\ [][launches' = launches + 1 =>
             /\ qpc = "launch"
             /\ inFlight = 0
             /\ child # "running"
             /\ launches <= attempt
             /\ Len(sleeps) = attempt]_vars

\* the second child of a call is running, after the first one exited and one
\* sleep
C17_Witness ==
    /\ qpc = "communicate"
    /\ attempt = 1
    /\ launches = 2
    /\ inFlight = 1
    /\ Len(sleeps) = 1

\* C18: an adapter that was constructed and not opened has no command, for
\* whatever tool its construction found; a query call on it returns at once,
\* without raising, the envelope with empty content, empty metadata and the
\* error "Session not initialized properly.", having launched no child, slept
\* never, printed nothing and called no callback.
C18_UnopenedQuery ==
    phase = "constructed" =>
        /\ command = NoCommand
        /\ qpc \in {"idle", "returned"}
        /\ launches = 0 /\ inFlight = 0 /\ child = "none"
        /\ sleeps = <<>>
        /\ printed = 0 /\ cbCount = 0
        /\ qpc = "returned" =>
               result = SessionResponse("", EmptyDict,
                                        Some("Session not initialized properly."))

\* the standalone binary was found at construction, and a query call on the
\* unopened adapter returned
C18_Witness ==
    /\ phase = "constructed"
    /\ lastCheck # None /\ lastCheck[1].copilot
    /\ qpc = "returned"
    /\ prompt = "hello"

\* the envelope of a successful attempt of a call with n attempts
SuccessShape(r, n) ==
    /\ r.error = None
    /\ r.content # ""
    /\ r.metadata # EmptyDict
    /\ DOMAIN r.metadata = {"attempt", "provider"}
    /\ r.metadata.attempt \in 1..n
    /\ r.metadata.provider = "copilot"

\* the envelope of a call that failed
FailureShape(r) ==
    /\ r.error # None
    /\ r.error # Some("")
    /\ r.content = ""
    /\ r.metadata = EmptyDict

\* C19: every envelope that query returns has either no error, non-empty
\* content and the metadata {attempt in 1..N, provider}, or a non-empty error,
\* empty content and empty metadata, and never both; so its success property
\* is true exactly when it has no error, and it never carries both content
\* and an error.
C19_EnvelopeShapes ==
    qpc = "returned" =>
        /\ SuccessShape(result, options.retry_attempts) \/ FailureShape(result)
        /\ ~(SuccessShape(result, options.retry_attempts) /\ FailureShape(result))
        /\ Success(result) <=> result.error = None
        /\ ~(result.content # "" /\ result.error # None)

\* a call returned the envelope of its second attempt
C19_Witness ==
    /\ qpc = "returned"
    /\ result = SessionResponse("a", [attempt |-> 2, provider |-> "copilot"], None)
    /\ launches = 2

\* C20: no retry state passes from one query call to the next: the steps of
\* a query call leave the options and the resolved command as they are, and
\* every call that enters the loop starts at attempt index 0 with
\* options.retry_delay, no recorded error and no sleep, whatever the calls
\* before it did; its delay is then the configured one doubled once per
\* failed attempt, and it fails only after all N attempts.
C20_NoRetryLeak ==
    /\ [](qpc \in InFlight =>
            /\ attempt < options.retry_attempts
            /\ retry_delay =
                   options.retry_delay * Pow2(attempt))
    /\ [](LoopReturned /\ ~Success(result) =>
            attempt = options.retry_attempts - 1)
    /\ [][(qpc \notin InFlight /\ qpc' \in InFlight) =>
             /\ attempt' = 0
             /\ retry_delay' = options.retry_delay
             /\ last_error' = None
             /\ sleeps' = <<>>
             /\ launches' = 0]_vars
    /\ [][(qpc' # qpc \/ qpc \in InFlight) =>
             /\ options' = options
             /\ command' = command]_vars

\* a call is at its first attempt with the configured delay, on an adapter
\* on which an earlier call ran
C20_Witness ==
    /\ overridden
    /\ qpc = "launch"
    /\ attempt = 0
    /\ launches = 0
    /\ options.retry_attempts = 2
    /\ retry_delay = options.retry_delay

\* what follows an attempt that an exception with text detail ended: the
\* sleep before the next attempt, or after attempt N the failure envelope
Absorbed(detail) ==
    /\ last_error' = Some(detail)
    /\ attempt' = attempt
    /\ IF attempt < options.retry_attempts - 1
       THEN /\ qpc' = "sleep"
            /\ result' = NoResult
       ELSE /\ qpc' = "returned"
            /\ result' =
                  SessionResponse("", EmptyDict,
                      Some("Failed after " \o ToString(options.retry_attempts)
                           \o " attempts: " \o detail))

\* the step in which the spawn of the child failed
LaunchFailedStep ==
    /\ qpc = "launch"
    /\ qpc' # "communicate"
    /\ cancelledAt' = cancelledAt

\* the step in which a child exited 0 with non-empty output and the call did
\* not return the successful envelope
CallbackFailedStep ==
    /\ qpc = "communicate"
    /\ cancelledAt' = cancelledAt
    /\ outcome'[1].returncode = 0
    /\ outcome'[1].text # ""
    /\ ~(qpc' = "returned" /\ Success(result'))

\* C21: an ordinary exception raised during an attempt is a retryable
\* failure: when the spawn of the child fails, and when the progress callback
\* raises on an attempt whose child exited 0 with output, the attempt is used
\* up and its output is not returned: the call goes to the sleep before the
\* next attempt or, on attempt N, returns the "Failed after N attempts"
\* envelope with the text of that exception; nothing but a cancellation
\* leaves query as an exception.
C21_ExceptionsAbsorbed ==
    /\ [](qpc = "raised" => cancelledAt # None)
    /\ [][LaunchFailedStep =>
             /\ Absorbed(LaunchErrorText)
             /\ launches' = launches]_vars
    /\ [][CallbackFailedStep =>
             /\ Absorbed(CallbackErrorText)
             /\ cbCount' = cbCount + 1
             /\ cbArg' = Some(outcome'[1].text)]_vars

\* a call with two attempts: the spawn of the first failed, the child of the
\* second exited 0 with output and the progress callback raised, and the
\* call returned the failure envelope
C21_Witness ==
    /\ qpc = "returned"
    /\ options.retry_attempts = 2
    /\ attempt = 1
    /\ launches = 1
    /\ outcome = Some([returncode |-> 0, text |-> "a"])
    /\ cbCount = 1
    /\ result = SessionResponse("", EmptyDict,
                    Some("Failed after 2 attempts: progress callback failed"))

====
